---- MODULE Spec2Model ----
(***************************************************************************)
(* A model of scripts/02-enhance-source-urls.py: the stdin -> stdout       *)
(* filter that replaces missing or generic source URLs of a dataset by     *)
(* URLs found by a research agent and confirmed by a keyword fetch.        *)
(*                                                                         *)
(* Strings are TLA+ strings handled character by character (Len, SubSeq,   *)
(* \o), so lower(), strip(), split(), startswith(), endswith() and the     *)
(* `in` test are computed as Python computes them.                         *)
(***************************************************************************)
EXTENDS Integers, Sequences, FiniteSets, TLC

VARIABLES
    input,       \* what stdin holds: a dataset, or a document that does not parse
    data,        \* main(): the loaded dataset, mutated in place
    pc,          \* main(): position in the run
    ei,          \* main(): index of the event being enhanced
    si,          \* enhance_event_source: index of the source in the loop
    stage,       \* enhance_event_source: where the current source's pipeline is
    cand,        \* enhance_event_source: potential_url of the current source
    futures,     \* main(): the futures submitted to the pool, by impact index
    completed_count, \* main(): the results written back so far
    index,        \* main(): the index of the future as_completed yielded last
    out,         \* what has been written to standard output
    exitCode,    \* the process's exit status, -1 while it runs
    counts,      \* main(): problematic_event_sources, problematic_impacts
    evTrace,     \* per event source: what the agent and the fetch answered
    imTrace,     \* per impact: what the agent and the fetch answered
    validated,   \* the URLs validate_url returned True for in this run
    pool,        \* the pool alone: how many of its futures are in each state
    arg,         \* the argument of the function under test (function specs)
    ret          \* its result, Pending until it has run

vars == <<input, data, pc, ei, si, stage, cand, futures, completed_count, index, out,
          exitCode, counts, evTrace, imTrace, validated, pool, arg, ret>>

mainVars == <<input, data, pc, ei, si, stage, cand, futures, completed_count, index, out,
              exitCode, counts, evTrace, imTrace, validated, pool>>

-----------------------------------------------------------------------------
(* Python values *)

\* Optional[str]: None, or a string
None == [some |-> FALSE, val |-> ""]
Some(s) == [some |-> TRUE, val |-> s]

\* truthiness of an Optional[str]: `if url`, `if result`, `if potential_url`
Truthy(o) == o.some /\ o.val # ""

-----------------------------------------------------------------------------
(* str methods *)

Ch(s, i) == SubSeq(s, i, i)

UpperAlpha == "ABCDEFGHIJKLMNOPQRSTUVWXYZ"
LowerAlpha == "abcdefghijklmnopqrstuvwxyz"

\* upper-case letter -> lower-case letter
LowerMap ==
    [c \in {Ch(UpperAlpha, i) : i \in 1..Len(UpperAlpha)} |->
        Ch(LowerAlpha, CHOOSE i \in 1..Len(UpperAlpha) : Ch(UpperAlpha, i) = c)]

LowerChar(c) == IF c \in DOMAIN LowerMap THEN LowerMap[c] ELSE c

\* str.lower()
RECURSIVE Lower(_)
Lower(s) == IF s = "" THEN "" ELSE LowerChar(Ch(s, 1)) \o Lower(SubSeq(s, 2, Len(s)))

\* the characters str.strip() removes
Whitespace == {" ", "\n", "\t", "\r"}

RECURSIVE LStrip(_)
LStrip(s) ==
    IF s # "" /\ Ch(s, 1) \in Whitespace THEN LStrip(SubSeq(s, 2, Len(s))) ELSE s

RECURSIVE RStripWs(_)
RStripWs(s) ==
    IF s # "" /\ Ch(s, Len(s)) \in Whitespace
    THEN RStripWs(SubSeq(s, 1, Len(s) - 1)) ELSE s

\* str.strip()
Strip(s) == RStripWs(LStrip(s))

\* str.rstrip(c) for a one-character c
RECURSIVE RStrip(_, _)
RStrip(s, c) ==
    IF s # "" /\ Ch(s, Len(s)) = c THEN RStrip(SubSeq(s, 1, Len(s) - 1), c) ELSE s

\* str.startswith, str.endswith, `p in s`
StartsWith(s, p) == Len(s) >= Len(p) /\ SubSeq(s, 1, Len(p)) = p
EndsWith(s, p) == Len(s) >= Len(p) /\ SubSeq(s, Len(s) - Len(p) + 1, Len(s)) = p
Contains(s, p) ==
    \E i \in 1..(Len(s) - Len(p) + 1) : SubSeq(s, i, i + Len(p) - 1) = p

\* index of the first occurrence of the one-character c in s, 0 if none
Find(s, c) ==
    IF \E i \in 1..Len(s) : Ch(s, i) = c
    THEN CHOOSE i \in 1..Len(s) : Ch(s, i) = c /\ \A j \in 1..(i - 1) : Ch(s, j) # c
    ELSE 0

\* str.split(c) for a one-character c: the pieces, in order
RECURSIVE Split(_, _)
Split(s, c) ==
    LET k == Find(s, c)
    IN  IF k = 0 THEN <<s>>
        ELSE <<SubSeq(s, 1, k - 1)>> \o Split(SubSeq(s, k + 1, Len(s)), c)

\* str.replace(a, b) for one-character a and b
RECURSIVE Replace(_, _, _)
Replace(s, a, b) ==
    IF s = "" THEN ""
    ELSE (IF Ch(s, 1) = a THEN b ELSE Ch(s, 1)) \o Replace(SubSeq(s, 2, Len(s)), a, b)

\* s[:n]
Prefix(s, n) == SubSeq(s, 1, IF Len(s) < n THEN Len(s) ELSE n)

-----------------------------------------------------------------------------
(* Quality classifier *)

GENERIC_PATTERNS == <<"status.", "/status", "/health", "support.">>

\* urlparse(url).query: what lies between the first "?" and the fragment
UrlQuery(url) ==
    LET h == Find(url, "#")
        noFrag == IF h = 0 THEN url ELSE SubSeq(url, 1, h - 1)
        q == Find(noFrag, "?")
    IN  IF q = 0 THEN "" ELSE SubSeq(noFrag, q + 1, Len(noFrag))

\* the body of the loop over GENERIC_PATTERNS, for one pattern
PatternHits_anywhere(url, pattern) == Contains(Lower(url), pattern)

PatternHits_urlslash(url, pattern) ==
    /\ Contains(Lower(url), pattern)
    /\ UrlQuery(url) = ""
    /\ EndsWith(RStrip(Lower(url), "/"), pattern)

PatternHits(url, pattern) ==
    LET url_lower == Lower(url)
    IN  /\ Contains(url_lower, pattern)
        /\ UrlQuery(url) = ""
        /\ EndsWith(url_lower, RStrip(pattern, "/"))

is_problematic_url(url) ==
    IF ~Truthy(url) THEN TRUE
    ELSE \E k \in 1..Len(GENERIC_PATTERNS) : PatternHits(url.val, GENERIC_PATTERNS[k])

-----------------------------------------------------------------------------
(* Research client *)

\* what subprocess.run can do: raise TimeoutExpired, raise another exception
\* (the CLI is missing), or return a completed process
Timeout == [kind |-> "timeout", rc |-> 0, stdout |-> ""]
OsError == [kind |-> "oserror", rc |-> 0, stdout |-> ""]
Exit(rc, stdout) == [kind |-> "exit", rc |-> rc, stdout |-> stdout]
NoCall == [kind |-> "nocall", rc |-> 0, stdout |-> ""]

call_claude_ignore_rc(run) ==
    IF run.kind # "exit" THEN None
    ELSE LET output == Strip(run.stdout)
         IN  IF output = "" \/ Contains(Lower(output), "credit")
             THEN None ELSE Some(output)

call_claude_untrimmed(run) ==
    IF run.kind # "exit" THEN None
    ELSE LET output == Strip(run.stdout)
         IN  IF run.rc # 0 \/ output = "" \/ Contains(Lower(output), "credit")
             THEN None ELSE Some(run.stdout)

\* call_claude(prompt), given what subprocess.run did; log() returns
call_claude(run) ==
    IF run.kind # "exit" THEN None
    ELSE LET output == Strip(run.stdout)
         IN  IF run.rc # 0 \/ output = "" \/ Contains(Lower(output), "credit")
             THEN None ELSE Some(output)

-----------------------------------------------------------------------------
(* Candidate extraction, written twice in the source *)

\* the reversed scan of enhance_event_source, from line k down to line 1
RECURSIVE ScanEvent(_, _)
ScanEvent(lines, k) ==
    IF k = 0 THEN None
    ELSE LET line == Strip(lines[k])
         IN  IF StartsWith(line, "http") THEN Some(line) ELSE ScanEvent(lines, k - 1)

\* the reversed scan of enhance_impact_source
RECURSIVE ScanImpact(_, _)
ScanImpact(lines, k) ==
    IF k = 0 THEN None
    ELSE LET line == Strip(lines[k])
         IN  IF StartsWith(line, "http") THEN Some(line) ELSE ScanImpact(lines, k - 1)

\* the branches `if result != "NONE"` / `if potential_url` of each function:
\* "explicit_none", "no_url", or "url" with the candidate
Extracted(kind, url) == [kind |-> kind, url |-> url]

extract_event_first(result) ==
    IF result = "NONE" THEN Extracted("explicit_none", "")
    ELSE LET lines == Split(result, "\n")
             hits == {k \in 1..Len(lines) : StartsWith(Strip(lines[k]), "http")}
         IN  IF hits = {} THEN Extracted("no_url", "")
             ELSE Extracted("url", Strip(lines[CHOOSE k \in hits : \A j \in hits : k <= j]))

extract_event(result) ==
    IF result = "NONE" THEN Extracted("explicit_none", "")
    ELSE LET lines == Split(result, "\n")
             potential_url == ScanEvent(lines, Len(lines))
         IN  IF Truthy(potential_url) THEN Extracted("url", potential_url.val)
             ELSE Extracted("no_url", "")

extract_impact(result) ==
    IF result = "NONE" THEN Extracted("explicit_none", "")
    ELSE LET lines == Split(result, "\n")
             potential_url == ScanImpact(lines, Len(lines))
         IN  IF Truthy(potential_url) THEN Extracted("url", potential_url.val)
             ELSE Extracted("no_url", "")

-----------------------------------------------------------------------------
(* Validator *)

\* what requests.get can do: raise, or return a response
FetchError == [kind |-> "error", status |-> 0, text |-> ""]
Response(status, text) == [kind |-> "response", status |-> status, text |-> text]
NoFetch == [kind |-> "nofetch", status |-> 0, text |-> ""]

validate_url_any_status(keywords, fetch) ==
    IF fetch.kind # "response" THEN FALSE
    ELSE LET content_lower == Lower(fetch.text)
         IN  \E k \in 1..Len(keywords) : Contains(content_lower, Lower(keywords[k]))

validate_url_case_sensitive(keywords, fetch) ==
    IF fetch.kind # "response" THEN FALSE
    ELSE IF fetch.status # 200 THEN FALSE
    ELSE \E k \in 1..Len(keywords) : Contains(fetch.text, keywords[k])

\* validate_url(url, keywords), given what the fetch of url answered
validate_url(keywords, fetch) ==
    IF fetch.kind # "response" THEN FALSE
    ELSE IF fetch.status # 200 THEN FALSE
    ELSE LET content_lower == Lower(fetch.text)
         IN  \E k \in 1..Len(keywords) : Contains(content_lower, Lower(keywords[k]))

-----------------------------------------------------------------------------
(* The dataset *)

\* a JSON member: absent from its object, null, or a string
AbsentField == [kind |-> "absent", val |-> ""]
NullField == [kind |-> "null", val |-> ""]
StrField(s) == [kind |-> "str", val |-> s]

\* dict.get(key): None when the key is absent or its value is null
Get(f) == IF f.kind = "str" THEN Some(f.val) ELSE None

\* dict[key] raises KeyError when the key is absent
Raises(f) == f.kind = "absent"

\* bounds of the model: events in the input, and references (event sources
\* plus impacts) in the input
MaxEvents == 1
MaxRefs == 2

GenericUrl == "https://status.example.com/status"
SpecificUrl == "https://status.example.com/incidents/2025-10-20?id=42"

\* the values a reference holds in the input
RefValues == {NullField, StrField(GenericUrl), StrField(SpecificUrl)}

Services ==
    <<[id |-> "svc-a", name |-> "Service A", company |-> "Acme",
       features |-> <<[id |-> "f1", name |-> "Feature 1"]>>]>>

RECURSIVE SeqsOf(_, _)
SeqsOf(S, n) ==
    IF n = 0 THEN {<<>>} ELSE {<<x>> \o r : x \in S, r \in SeqsOf(S, n - 1)}

SourceSet == {[url |-> v] : v \in RefValues}

\* an event of the input with k sources; the "id" member may be missing
EventsWith(k) ==
    {[id |-> i, title |-> "US-EAST-1 outage", description |-> "DynamoDB DNS failure",
      awsServicesAffected |-> <<"DynamoDB">>, sources |-> ss] :
        i \in {StrField("evt-1"), AbsentField}, ss \in SeqsOf(SourceSet, k)}

\* the sequences of n events holding at most r sources in all
RECURSIVE EventSeqs(_, _)
EventSeqs(n, r) ==
    IF n = 0 THEN {<<>>}
    ELSE UNION {{<<e>> \o rest : e \in EventsWith(k), rest \in EventSeqs(n - 1, r - k)} :
                    k \in 0..r}

\* an impact of the input: with its serviceId and no sourceUrl or a specific
\* one, or with neither serviceId nor sourceUrl
Impact(sid, v) ==
    [serviceId |-> sid, featureId |-> "f1", impactType |-> "degraded",
     description |-> "logins failed", sourceUrl |-> v]

ImpactSet ==
    {Impact(StrField("svc-a"), v) : v \in {NullField, StrField(SpecificUrl)}} \cup
    {Impact(AbsentField, NullField)}

Datasets ==
    UNION {{[events |-> ev, eventImpacts |-> im, services |-> Services] :
                ev \in UNION {EventSeqs(n, MaxRefs - m) : n \in 0..MaxEvents},
                im \in SeqsOf(ImpactSet, m)} : m \in 0..MaxRefs}

EmptyDataset == [events |-> <<>>, eventImpacts |-> <<>>, services |-> <<>>]

\* json.load(sys.stdin): the document parses to a dataset, or does not parse
Parsed(d) == [parses |-> TRUE, doc |-> d]
Malformed == [parses |-> FALSE, doc |-> EmptyDataset]

\* the references of a dataset: <<e, s>> for source s of event e, i for impact i
SourceRefs(d) ==
    UNION {{<<e, s>> : s \in 1..Len(d.events[e].sources)} : e \in 1..Len(d.events)}

ImpactRefs(d) == 1..Len(d.eventImpacts)

-----------------------------------------------------------------------------
(* What the agent and the web answer in a run *)

ResearchOutcomes ==
    { Timeout,
      Exit(1, "https://b.example/y"),
      Exit(0, "NONE\n"),
      Exit(0, "I could not find a source."),
      Exit(0, "Found it.\nhttps://news.example.com/article-2025-10-20\n"),
      Exit(0, "https://a.example/x\nmore text\nhttps://b.example/y") }

FetchOutcomes ==
    { FetchError,
      Response(200, "AWS outage impacted DynamoDB"),
      Response(200, "Page not found") }

\* per reference: the agent's and the fetch's answer, and the number of calls
NoTrace == [research |-> NoCall, fetch |-> NoFetch, nResearch |-> 0, nValidate |-> 0]

-----------------------------------------------------------------------------
(* The functions above on the values of a run, tabulated once *)

\* is_problematic_url on the values references hold in the input
Classified == [v \in RefValues |-> is_problematic_url(Get(v))]

\* call_claude on each answer of the agent, and the candidate either
\* function extracts from its result
Answered ==
    [run \in ResearchOutcomes |->
        LET result == call_claude(run)
        IN  [result |-> result,
             event |-> extract_event(result.val),
             impact |-> extract_impact(result.val)]]

EventKeywords(event) == event.awsServicesAffected \o <<"AWS", "outage", "US-EAST-1">>

ImpactKeywords(impact) ==
    <<Replace(impact.serviceId.val, "-", " "), impact.impactType, "AWS", "outage">>

\* ImpactKeywords on the impacts of the input that have a serviceId
ImpactKeywordsOf ==
    [m \in {x \in ImpactSet : ~Raises(x.serviceId)} |-> ImpactKeywords(m)]

KeywordLists ==
    {EventKeywords(e) : e \in EventsWith(0)} \cup
    {ImpactKeywordsOf[m] : m \in DOMAIN ImpactKeywordsOf}

\* validate_url on each keyword list and each answer of the fetch
Validates == [kw \in KeywordLists |-> [f \in FetchOutcomes |-> validate_url(kw, f)]]

-----------------------------------------------------------------------------
(* main(): start, load, pre-pass *)

NoArg == [none |-> TRUE]
NoPool == [pending |-> 0, research |-> 0, validate |-> 0, done |-> 0]
Pending == [done |-> FALSE]

FunctionIdle == arg = NoArg /\ ret = Pending

Init ==
    /\ input \in {Parsed(d) : d \in Datasets} \cup {Malformed}
    /\ data = EmptyDataset
    /\ pc = "load"
    /\ ei = 0 /\ si = 0 /\ stage = "idle" /\ cand = ""
    /\ futures = <<>>
    /\ completed_count = 0
    /\ index = 0
    /\ out = <<>>
    /\ exitCode = -1
    /\ counts = [events |-> 0, impacts |-> 0]
    /\ evTrace = <<>> /\ imTrace = <<>>
    /\ validated = {}
    /\ pool = NoPool
    /\ FunctionIdle

\* the pre-pass: how many references is_problematic_url flags
CountProblematic(d) ==
    [events |-> Cardinality({r \in SourceRefs(d) :
                    Classified[d.events[r[1]].sources[r[2]].url]}),
     impacts |-> Cardinality({i \in ImpactRefs(d) :
                    Classified[d.eventImpacts[i].sourceUrl]})]

Load_lenient ==
    /\ pc = "load"
    /\ data' = input.doc
    /\ counts' = CountProblematic(input.doc)
    /\ evTrace' = [r \in SourceRefs(input.doc) |-> NoTrace]
    /\ imTrace' = [i \in ImpactRefs(input.doc) |-> NoTrace]
    /\ pc' = "events"
    /\ ei' = 1
    /\ stage' = "enter"
    /\ UNCHANGED <<input, pool, completed_count, index, si, cand, futures, out, validated,
                   exitCode, arg, ret>>

\* json.load, sys.exit(1) on a JSONDecodeError, else the counting pre-pass
Load ==
    /\ pc = "load"
    /\ IF ~input.parses
       THEN /\ pc' = "failed"
            /\ exitCode' = 1
            /\ UNCHANGED <<data, counts, evTrace, imTrace, ei, stage>>
       ELSE /\ data' = input.doc
            /\ counts' = CountProblematic(input.doc)
            /\ evTrace' = [r \in SourceRefs(input.doc) |-> NoTrace]
            /\ imTrace' = [i \in ImpactRefs(input.doc) |-> NoTrace]
            /\ pc' = "events"
            /\ ei' = 1
            /\ stage' = "enter"
            /\ UNCHANGED exitCode
    /\ UNCHANGED <<input, pool, completed_count, index, si, cand, futures, out, validated, arg, ret>>

-----------------------------------------------------------------------------
(* Event enrichment: sequential *)

AdvanceSource_again ==
    /\ si' = si
    /\ stage' = "source"
    /\ cand' = ""

\* the next iteration of `for source in event.get("sources", [])`
AdvanceSource ==
    /\ si' = si + 1
    /\ stage' = "source"
    /\ cand' = ""

\* `for event in data.get("events", [])`: enhance_event_source(event) begins
\* by logging event['id'], a KeyError when the member is missing
EnterEvent ==
    /\ pc = "events" /\ stage = "enter"
    /\ IF ei > Len(data.events)
       THEN pc' = "submit" /\ stage' = "idle" /\ UNCHANGED <<si, exitCode>>
       ELSE IF Raises(data.events[ei].id)
       THEN pc' = "failed" /\ exitCode' = 1 /\ UNCHANGED <<si, stage>>
       ELSE si' = 1 /\ stage' = "source" /\ UNCHANGED <<pc, exitCode>>
    /\ UNCHANGED <<input, pool, completed_count, index, data, ei, cand, futures, out, counts, evTrace, imTrace,
                   validated, arg, ret>>

NextSource_async ==
    /\ pc = "events" /\ stage = "source"
    /\ IF si > Len(data.events[ei].sources)
       THEN ei' = ei + 1 /\ si' = 0 /\ stage' = "enter" /\ UNCHANGED evTrace
       ELSE IF ~Classified[data.events[ei].sources[si].url]
       THEN si' = si + 1 /\ UNCHANGED <<ei, stage, evTrace>>
       ELSE /\ si' = si + 1
            /\ evTrace' = [evTrace EXCEPT ![<<ei, si>>].nResearch = @ + 1]
            /\ UNCHANGED <<ei, stage>>
    /\ UNCHANGED <<input, pool, completed_count, index, data, pc, cand, futures, out, exitCode,
                   counts, imTrace, validated, arg, ret>>

\* the head of the source loop: leave the event, skip a good source, or build
\* the prompt and call the agent
NextSource ==
    /\ pc = "events" /\ stage = "source"
    /\ IF si > Len(data.events[ei].sources)
       THEN ei' = ei + 1 /\ si' = 0 /\ stage' = "enter" /\ UNCHANGED evTrace
       ELSE IF ~Classified[data.events[ei].sources[si].url]
       THEN si' = si + 1 /\ UNCHANGED <<ei, stage, evTrace>>
       ELSE /\ stage' = "research"
            /\ evTrace' = [evTrace EXCEPT ![<<ei, si>>].nResearch = @ + 1]
            /\ UNCHANGED <<ei, si>>
    /\ UNCHANGED <<input, pool, completed_count, index, data, pc, cand, futures, out, exitCode, counts, imTrace,
                   validated, arg, ret>>

\* call_claude returns; the candidate is extracted; validate_url is called
EventResearchReturns(run) ==
    /\ pc = "events" /\ stage = "research"
    /\ LET result == Answered[run].result
           x == Answered[run].event
       IN  IF Truthy(result) /\ x.kind = "url"
           THEN /\ stage' = "validate"
                /\ cand' = x.url
                /\ evTrace' = [evTrace EXCEPT ![<<ei, si>>].research = run,
                                              ![<<ei, si>>].nValidate = @ + 1]
                /\ UNCHANGED si
           ELSE /\ AdvanceSource
                /\ evTrace' = [evTrace EXCEPT ![<<ei, si>>].research = run]
    /\ UNCHANGED <<input, pool, completed_count, index, data, pc, ei, futures, out, exitCode, counts, imTrace,
                   validated, arg, ret>>

\* `if validate_url(...): source["url"] = potential_url`, else keep
ApplySource_clear(source, potential_url, ok) ==
    IF ok THEN [source EXCEPT !.url = StrField(potential_url)]
    ELSE [source EXCEPT !.url = NullField]

ApplySource_always(source, potential_url, ok) ==
    [source EXCEPT !.url = StrField(potential_url)]

ApplySource(source, potential_url, ok) ==
    IF ok THEN [source EXCEPT !.url = StrField(potential_url)] ELSE source

\* validate_url returns
EventValidateReturns(fetch) ==
    /\ pc = "events" /\ stage = "validate"
    /\ LET ok == Validates[EventKeywords(data.events[ei])][fetch]
       IN  /\ data' = [data EXCEPT !.events[ei].sources[si] = ApplySource(@, cand, ok)]
           /\ validated' = IF ok THEN validated \cup {cand} ELSE validated
    /\ evTrace' = [evTrace EXCEPT ![<<ei, si>>].fetch = fetch]
    /\ AdvanceSource
    /\ UNCHANGED <<input, pool, completed_count, index, pc, ei, futures, out, exitCode, counts, imTrace, arg, ret>>

-----------------------------------------------------------------------------
(* Impact enrichment: a process pool, one future per impact *)

max_workers == 100

\* next((s for s in items if s['id'] == id), None), as a set of at most one
FirstWithId(items, id) ==
    LET hits == {k \in 1..Len(items) : items[k].id = id}
    IN  IF hits = {} THEN {} ELSE {items[CHOOSE k \in hits : \A j \in hits : k <= j]}

\* the names enhance_impact_source reads from all_services for its prompt,
\* the ids standing in for a service or a feature that is not listed
NoContext == [service_name |-> "", company |-> "", feature_name |-> None]

ServiceContext(all_services, service_id, feature_id) ==
    LET service == FirstWithId(all_services, service_id)
    IN  IF service = {}
        THEN [service_name |-> service_id, company |-> "Unknown", feature_name |-> None]
        ELSE LET sv == CHOOSE x \in service : TRUE
                 feature == FirstWithId(sv.features, feature_id)
             IN  [service_name |-> sv.name, company |-> sv.company,
                  feature_name |-> IF feature = {} THEN Some(feature_id)
                                   ELSE Some((CHOOSE f \in feature : TRUE).name)]

\* a future: its worker's state, the worker's copy of the impact, the names
\* it looked up, its potential_url, and whether as_completed has yielded it
Future(impact) ==
    [state |-> "pending", impact |-> impact, context |-> NoContext, cand |-> "",
     yielded |-> FALSE]

\* ProcessPoolExecutor(max_workers=100): a pending future is started when
\* fewer than max_workers workers are busy
SlotFree_always(busy) == TRUE

SlotFree(busy) == busy < max_workers

\* the futures whose worker holds a pool slot
Running == {i \in DOMAIN futures : futures[i].state \in {"research", "validate"}}
Settled(i) == futures[i].state \in {"done", "raised"}

\* executor.submit for every impact: each worker gets a copy of its impact
Submit ==
    /\ pc = "submit"
    /\ futures' = [i \in ImpactRefs(data) |-> Future(data.eventImpacts[i])]
    /\ pc' = "collect"
    /\ UNCHANGED <<input, pool, completed_count, index, data, ei, si, stage, cand, out, exitCode, counts, evTrace,
                   imTrace, validated, arg, ret>>

\* enhance_impact_source(impact, ...) starts in a free worker: return a good
\* impact as it is; else impact['serviceId'] (a KeyError when the member is
\* missing), the lookup in all_services (the services of the dataset, which
\* main() passes to every worker), the prompt and the call of the agent
WorkerStart(i) ==
    /\ pc \in {"collect", "crashed"}
    /\ futures[i].state = "pending"
    /\ SlotFree(Cardinality(Running))
    /\ IF ~Classified[futures[i].impact.sourceUrl]
       THEN futures' = [futures EXCEPT ![i].state = "done"] /\ UNCHANGED imTrace
       ELSE IF Raises(futures[i].impact.serviceId)
       THEN futures' = [futures EXCEPT ![i].state = "raised"] /\ UNCHANGED imTrace
       ELSE /\ futures' = [futures EXCEPT
                              ![i].state = "research",
                              ![i].context = ServiceContext(data.services,
                                                 futures[i].impact.serviceId.val,
                                                 futures[i].impact.featureId)]
            /\ imTrace' = [imTrace EXCEPT ![i].nResearch = @ + 1]
    /\ UNCHANGED <<input, pool, completed_count, index, data, pc, ei, si, stage, cand, out, exitCode, counts, evTrace,
                   validated, arg, ret>>

WorkerResearchReturns_shared(i, run) ==
    /\ pc \in {"collect", "crashed"}
    /\ futures[i].state = "research"
    /\ LET result == Answered[run].result
           x == Answered[run].impact
       IN  IF Truthy(result) /\ x.kind = "url"
           THEN /\ futures' = [j \in DOMAIN futures |->
                                  IF j = i
                                  THEN [futures[j] EXCEPT !.state = "validate", !.cand = x.url]
                                  ELSE [futures[j] EXCEPT !.cand = x.url]]
                /\ imTrace' = [imTrace EXCEPT ![i].research = run, ![i].nValidate = @ + 1]
           ELSE /\ futures' = [futures EXCEPT ![i].state = "done"]
                /\ imTrace' = [imTrace EXCEPT ![i].research = run]
    /\ UNCHANGED <<input, pool, completed_count, index, data, pc, ei, si, stage, cand, out,
                   exitCode, counts, evTrace, validated, arg, ret>>

\* call_claude returns in worker i
WorkerResearchReturns(i, run) ==
    /\ pc \in {"collect", "crashed"}
    /\ futures[i].state = "research"
    /\ LET result == Answered[run].result
           x == Answered[run].impact
       IN  IF Truthy(result) /\ x.kind = "url"
           THEN /\ futures' = [futures EXCEPT ![i].state = "validate", ![i].cand = x.url]
                /\ imTrace' = [imTrace EXCEPT ![i].research = run, ![i].nValidate = @ + 1]
           ELSE /\ futures' = [futures EXCEPT ![i].state = "done"]
                /\ imTrace' = [imTrace EXCEPT ![i].research = run]
    /\ UNCHANGED <<input, pool, completed_count, index, data, pc, ei, si, stage, cand, out, exitCode, counts, evTrace,
                   validated, arg, ret>>

\* `if validate_url(...): impact["sourceUrl"] = potential_url`, else keep
ApplyImpact_clear(impact, potential_url, ok) ==
    IF ok THEN [impact EXCEPT !.sourceUrl = StrField(potential_url)]
    ELSE [impact EXCEPT !.sourceUrl = StrField("")]

ApplyImpact_always(impact, potential_url, ok) ==
    [impact EXCEPT !.sourceUrl = StrField(potential_url)]

ApplyImpact(impact, potential_url, ok) ==
    IF ok THEN [impact EXCEPT !.sourceUrl = StrField(potential_url)] ELSE impact

\* validate_url returns in worker i, which returns its impact
WorkerValidateReturns(i, fetch) ==
    /\ pc \in {"collect", "crashed"}
    /\ futures[i].state = "validate"
    /\ LET ok == Validates[ImpactKeywordsOf[futures[i].impact]][fetch]
       IN  /\ futures' = [futures EXCEPT
                             ![i].impact = ApplyImpact(@, futures[i].cand, ok),
                             ![i].state = "done"]
           /\ validated' = IF ok THEN validated \cup {futures[i].cand} ELSE validated
    /\ imTrace' = [imTrace EXCEPT ![i].fetch = fetch]
    /\ UNCHANGED <<input, pool, completed_count, index, data, pc, ei, si, stage, cand, out, exitCode, counts, evTrace,
                   arg, ret>>

\* data["eventImpacts"][index] = enhanced_impact
WriteBack_append(d, i, enhanced_impact) ==
    [d EXCEPT !.eventImpacts[completed_count + 1] = enhanced_impact]

WriteBack_services(d, i, enhanced_impact) ==
    [d EXCEPT !.eventImpacts[i] = enhanced_impact, !.services = <<>>]

WriteBack(d, i, enhanced_impact) ==
    [d EXCEPT !.eventImpacts[i] = enhanced_impact]

\* as_completed yields a settled future; future.result() returns the worker's
\* impact or raises what the worker raised
Collect(i) ==
    /\ pc = "collect"
    /\ Settled(i) /\ ~futures[i].yielded
    /\ futures' = [futures EXCEPT ![i].yielded = TRUE]
    /\ index' = i
    /\ IF futures[i].state = "raised"
       THEN pc' = "crashed" /\ UNCHANGED <<data, completed_count>>
       ELSE /\ data' = WriteBack(data, i, futures[i].impact)
            /\ completed_count' = completed_count + 1
            /\ UNCHANGED pc
    /\ UNCHANGED <<input, pool, ei, si, stage, cand, out, exitCode, counts, evTrace, imTrace,
                   validated, arg, ret>>

\* the exception leaves the `with` block once every worker has returned, and
\* ends the process
Unwind ==
    /\ pc = "crashed"
    /\ \A i \in DOMAIN futures : Settled(i)
    /\ pc' = "failed"
    /\ exitCode' = 1
    /\ UNCHANGED <<input, pool, completed_count, index, data, ei, si, stage, cand, futures, out, counts, evTrace,
                   imTrace, validated, arg, ret>>

Dump_early ==
    /\ pc = "collect"
    /\ out' = Append(out, data)
    /\ pc' = "done"
    /\ exitCode' = 0
    /\ UNCHANGED <<input, pool, completed_count, index, data, ei, si, stage, cand, futures, counts,
                   evTrace, imTrace, validated, arg, ret>>

\* as_completed is exhausted, the `with` block is left, and
\* json.dump(data, sys.stdout, indent=2) writes the dataset
Dump ==
    /\ pc = "collect"
    /\ \A i \in DOMAIN futures : futures[i].yielded
    /\ out' = Append(out, data)
    /\ pc' = "done"
    /\ exitCode' = 0
    /\ UNCHANGED <<input, pool, completed_count, index, data, ei, si, stage, cand, futures, counts, evTrace, imTrace,
                   validated, arg, ret>>

Next ==
    \/ Load
    \/ EnterEvent
    \/ NextSource
    \/ \E run \in ResearchOutcomes : EventResearchReturns(run)
    \/ \E fetch \in FetchOutcomes : EventValidateReturns(fetch)
    \/ Submit
    \/ \E i \in DOMAIN futures : WorkerStart(i)
    \/ \E i \in DOMAIN futures, run \in ResearchOutcomes : WorkerResearchReturns(i, run)
    \/ \E i \in DOMAIN futures, fetch \in FetchOutcomes : WorkerValidateReturns(i, fetch)
    \/ \E i \in DOMAIN futures : Collect(i)
    \/ Unwind
    \/ Dump

Spec == Init /\ [][Next]_vars

\* every call returns or times out, and every process takes its next step
SpecLive == Spec /\ WF_vars(Next)

-----------------------------------------------------------------------------
(* The functions on their own: one call on an argument from a bounded set *)

\* the run of main() is not part of these specifications
RunIdle ==
    /\ input = Malformed
    /\ data = EmptyDataset
    /\ pc = "off"
    /\ ei = 0 /\ si = 0 /\ stage = "idle" /\ cand = ""
    /\ futures = <<>>
    /\ completed_count = 0
    /\ index = 0
    /\ out = <<>>
    /\ exitCode = -1
    /\ counts = [events |-> 0, impacts |-> 0]
    /\ evTrace = <<>> /\ imTrace = <<>>
    /\ validated = {}

MainIdle == RunIdle /\ pool = NoPool

\* the strings made of at most n pieces of P
RECURSIVE Concats(_, _)
Concats(P, n) ==
    IF n = 0 THEN {""} ELSE Concats(P, n - 1) \cup {p \o r : p \in P, r \in Concats(P, n - 1)}

\* bound of the model: pieces in a URL given to is_problematic_url
MaxParts == 3

UrlPieces ==
    {"https://status.example.com", "https://example.com", "/status", "/STATUS",
     "/health", "support.", "status.", "/", "?id=7", "#top", "/incidents"}

ClassifyArgs ==
    {AbsentField, NullField} \cup {StrField(u) : u \in Concats(UrlPieces, MaxParts)}

InitClassify == MainIdle /\ arg \in ClassifyArgs /\ ret = Pending

\* is_problematic_url(source.get("url"))
ClassifyCall ==
    /\ ~ret.done
    /\ ret' = [done |-> TRUE, value |-> is_problematic_url(Get(arg))]
    /\ UNCHANGED <<mainVars, arg>>

SpecClassify == InitClassify /\ [][ClassifyCall]_vars

Statuses == {200, 201, 204, 301, 404, 500}

ValidateArgs ==
    [keywords : {<<>>, <<"dynamodb">>, <<"DynamoDB", "AWS">>, <<"S3", "outage">>, <<"S3">>},
     fetch : {FetchError} \cup
             {Response(st, body) : st \in Statuses,
                  body \in {"AWS outage impacted DynamoDB", "aws OUTAGE", "Not Found", ""}}]

InitValidate == MainIdle /\ arg \in ValidateArgs /\ ret = Pending

\* validate_url(url, keywords), the fetch answering arg.fetch
ValidateCall ==
    /\ ~ret.done
    /\ ret' = [done |-> TRUE, value |-> validate_url(arg.keywords, arg.fetch)]
    /\ UNCHANGED <<mainVars, arg>>

SpecValidate == InitValidate /\ [][ValidateCall]_vars

\* bound of the model: lines in the agent's output
MaxLines == 4

ResponseLines ==
    {"NONE", "some text", "https://a.example/x", "  https://b.example/y ",
     "HTTP://C.EXAMPLE", ""}

\* "\n".join(lines) for every sequence of 1..n lines
RECURSIVE Joined(_)
Joined(n) ==
    IF n = 1 THEN ResponseLines
    ELSE Joined(n - 1) \cup {r \o "\n" \o l : r \in Joined(n - 1), l \in ResponseLines}

InitExtract == MainIdle /\ arg \in {[stdout |-> r] : r \in Joined(MaxLines)} /\ ret = Pending

NotRun == Extracted("not_run", "")

\* the agent exits 0 with arg.stdout; each function extracts from call_claude's result
ExtractCall ==
    /\ ~ret.done
    /\ LET result == call_claude(Exit(0, arg.stdout))
       IN  ret' = [done |-> TRUE,
                   result |-> result,
                   event |-> IF Truthy(result) THEN extract_event(result.val) ELSE NotRun,
                   impact |-> IF Truthy(result) THEN extract_impact(result.val) ELSE NotRun]
    /\ UNCHANGED <<mainVars, arg>>

SpecExtract == InitExtract /\ [][ExtractCall]_vars

\* bound of the model: pieces in the agent's standard output
MaxChunks == 2

StdoutChunks ==
    {" ", "\n", "NONE", "https://a.example/x", "Credit balance is too low",
     "insufficient credits", "quota exceeded"}

ExitCodes == {0, 1, 2, -9}

ResearchArgs ==
    {Timeout, OsError} \cup
    {Exit(rc, o) : rc \in ExitCodes, o \in Concats(StdoutChunks, MaxChunks)}

InitResearch == MainIdle /\ arg \in ResearchArgs /\ ret = Pending

\* call_claude(prompt), subprocess.run doing arg
ResearchCall ==
    /\ ~ret.done
    /\ ret' = [done |-> TRUE, value |-> call_claude(arg)]
    /\ UNCHANGED <<mainVars, arg>>

SpecResearch == InitResearch /\ [][ResearchCall]_vars

\* bound of the model: impacts submitted to the pool
MaxImpacts == 102

\* the pool alone, its futures counted by state: n impacts are submitted
PoolOf(n) == [pending |-> n, research |-> 0, validate |-> 0, done |-> 0]

Busy == pool.research + pool.validate

InitPool ==
    /\ RunIdle /\ FunctionIdle
    /\ pool \in {PoolOf(n) : n \in {1, max_workers, MaxImpacts}}

\* a free worker takes the oldest pending future: enhance_impact_source
\* returns at once (a good impact, a KeyError) or calls the agent
PoolStart ==
    /\ pool.pending > 0
    /\ SlotFree(Busy)
    /\ \E calls \in BOOLEAN :
           pool' = IF calls
                   THEN [pool EXCEPT !.pending = @ - 1, !.research = @ + 1]
                   ELSE [pool EXCEPT !.pending = @ - 1, !.done = @ + 1]
    /\ UNCHANGED <<input, data, pc, ei, si, stage, cand, futures, completed_count, index,
                   out, exitCode, counts, evTrace, imTrace, validated, arg, ret>>

\* call_claude returns in one worker: validate_url is called, or the worker
\* returns
PoolResearchReturns ==
    /\ pool.research > 0
    /\ \E run \in ResearchOutcomes :
           pool' = IF Truthy(Answered[run].result) /\ Answered[run].impact.kind = "url"
                   THEN [pool EXCEPT !.research = @ - 1, !.validate = @ + 1]
                   ELSE [pool EXCEPT !.research = @ - 1, !.done = @ + 1]
    /\ UNCHANGED <<input, data, pc, ei, si, stage, cand, futures, completed_count, index,
                   out, exitCode, counts, evTrace, imTrace, validated, arg, ret>>

\* validate_url returns in one worker, which returns
PoolValidateReturns ==
    /\ pool.validate > 0
    /\ pool' = [pool EXCEPT !.validate = @ - 1, !.done = @ + 1]
    /\ UNCHANGED <<input, data, pc, ei, si, stage, cand, futures, completed_count, index,
                   out, exitCode, counts, evTrace, imTrace, validated, arg, ret>>

NextPool == PoolStart \/ PoolResearchReturns \/ PoolValidateReturns

SpecPool == InitPool /\ [][NextPool]_vars

-----------------------------------------------------------------------------
(* Claims about the functions *)

\* the keyword test of the validator, as the specification words it
KeywordOccurs(keywords, text) ==
    \E k \in 1..Len(keywords) : Contains(Lower(text), Lower(keywords[k]))

\* C8: validate returns false on every fetch failure (error, timeout, non-2xx
\* status), and on a fetch that succeeds with a 2xx status it returns true
\* exactly when some keyword, lower-cased, occurs in the lower-cased body.
C8_ValidateOn2xx ==
    ret.done =>
        ret.value = ( /\ arg.fetch.kind = "response"
                      /\ arg.fetch.status \in 200..299
                      /\ KeywordOccurs(arg.keywords, arg.fetch.text) )

\* the classifier as the specification words it: empty or absent, or no query
\* string and, lower-cased with the trailing slash stripped, a generic ending
SpecifiedProblematic(f) ==
    \/ f.kind # "str"
    \/ f.val = ""
    \/ /\ UrlQuery(f.val) = ""
       /\ \E k \in 1..Len(GENERIC_PATTERNS) :
              EndsWith(RStrip(Lower(f.val), "/"), GENERIC_PATTERNS[k])

\* C9: isProblematic is true of every empty or absent URL; of a non-empty URL
\* it is true exactly when the URL has no query string and, lower-cased and
\* with its trailing slash stripped, ends with one of the generic patterns.
C9_ProblematicIffGenericEnding == ret.done => ret.value = SpecifiedProblematic(arg)

\* the lines of a response that begin with http once trimmed
HttpLines(lines) == {k \in 1..Len(lines) : StartsWith(Strip(lines[k]), "http")}

\* the extraction as the specification words it: ExplicitNone when the
\* trimmed response is NONE, else the last line that begins with http once
\* trimmed, else None
SpecifiedExtraction(response) ==
    LET lines == Split(Strip(response), "\n")
        hits == HttpLines(lines)
    IN  IF Strip(response) = "NONE" THEN Extracted("explicit_none", "")
        ELSE IF hits = {} THEN Extracted("no_url", "")
        ELSE Extracted("url", Strip(lines[CHOOSE k \in hits : \A j \in hits : j <= k]))

\* C10: from a research response, both the event path and the impact path
\* extract ExplicitNone when the trimmed response is exactly NONE, otherwise
\* the last line that begins with http after trimming, otherwise nothing.
C10_ExtractionLastHttpLine ==
    (ret.done /\ Truthy(ret.result)) =>
        /\ ret.event = SpecifiedExtraction(arg.stdout)
        /\ ret.impact = SpecifiedExtraction(arg.stdout)

\* a response with two different http lines: the later one is the candidate
C10_Witness ==
    /\ ret.done
    /\ arg.stdout = "some text\nhttps://a.example/x\nsome text\n  https://b.example/y "
    /\ ret.event = Extracted("url", "https://b.example/y")
    /\ ret.impact = Extracted("url", "https://b.example/y")

\* the research client as the specification words it: Failure on a timeout,
\* on any other error, on a non-success exit status, on empty or
\* whitespace-only output and on output holding the credit marker; else the
\* trimmed response text
SpecifiedResearch(run) ==
    IF \/ run.kind \in {"timeout", "oserror"}
       \/ run.rc # 0
       \/ Strip(run.stdout) = ""
       \/ Contains(Lower(run.stdout), "credit")
    THEN None
    ELSE Some(Strip(run.stdout))

\* C11: research(query) returns for every behaviour of the agent: a non-zero
\* exit status, empty or whitespace-only output, output holding the credit
\* marker, a timeout and any other error all give the one Failure value;
\* otherwise it gives the trimmed response text.
C11_ResearchFailureOrTrimmedText ==
    ret.done =>
        /\ ret.value = SpecifiedResearch(arg)
        /\ ret.value = None \/ (ret.value.some /\ ret.value.val = Strip(arg.stdout))

\* the agent exits 0 with a URL wrapped in white space: the URL comes back
\* trimmed
C11_Witness ==
    /\ ret.done
    /\ arg = Exit(0, " https://a.example/x")
    /\ ret.value = Some("https://a.example/x")

-----------------------------------------------------------------------------
(* Claims about a run *)

orig == input.doc
Emitted == Len(out) > 0
Output == out[1]

SrcVal(d, r) == d.events[r[1]].sources[r[2]].url
ImpVal(d, i) == d.eventImpacts[i].sourceUrl

\* the research call as the specification words it: a failure on a timeout,
\* an error, a non-zero exit, empty output or the credit marker; else what
\* the extraction yields from the response
SpecifiedOutcome(run) ==
    IF \/ run.kind # "exit"
       \/ run.rc # 0
       \/ Strip(run.stdout) = ""
       \/ Contains(Lower(run.stdout), "credit")
    THEN Extracted("failure", "")
    ELSE SpecifiedExtraction(run.stdout)

Specified == [run \in ResearchOutcomes |-> SpecifiedOutcome(run)]
SpecifiedGood == [v \in RefValues |-> ~SpecifiedProblematic(v)]

\* where a reference's pipeline stands, read off the answers it was given:
\* t is its trace, kw the keywords of its validation
Verdict(t, kw) ==
    IF t.research = NoCall THEN "none"
    ELSE IF Specified[t.research].kind # "url" THEN Specified[t.research].kind
    ELSE IF t.fetch = NoFetch THEN "validating"
    ELSE IF Validates[kw][t.fetch] THEN "accepted"
    ELSE "rejected"

Failures == {"failure", "explicit_none", "no_url", "rejected"}

SrcVerdict(tr, r) == Verdict(tr[r], EventKeywords(orig.events[r[1]]))
ImpVerdict(tr, i) ==
    IF Raises(orig.eventImpacts[i].serviceId) THEN "none"
    ELSE Verdict(tr[i], ImpactKeywordsOf[orig.eventImpacts[i]])

Loaded == pc \notin {"load", "off"} /\ input.parses

\* a document has the shape of the input: as many events, sources and impacts
SameShape(d) ==
    /\ Len(d.events) = Len(orig.events)
    /\ \A e \in 1..Len(orig.events) :
           Len(d.events[e].sources) = Len(orig.events[e].sources)
    /\ Len(d.eventImpacts) = Len(orig.eventImpacts)

\* v is the original value o, or a URL the validator accepted in this run
KeptOrValidated(v, o) == v = o \/ (v.kind = "str" /\ v.val \in validated)

RefsKeptOrValidated(d) ==
    /\ SameShape(d)
    /\ \A r \in SourceRefs(orig) : KeptOrValidated(SrcVal(d, r), SrcVal(orig, r))
    /\ \A i \in ImpactRefs(orig) : KeptOrValidated(ImpVal(d, i), ImpVal(orig, i))

\* C1: at every point of a run, in the dataset, in every worker's copy and in
\* the output, each Source.url and each EventImpact.sourceUrl is its input
\* value or a URL the validator returned true for in this run.
C1_KeptOrValidated ==
    Loaded =>
        /\ RefsKeptOrValidated(data)
        /\ \A k \in 1..Len(out) : RefsKeptOrValidated(out[k])
        /\ \A i \in DOMAIN futures :
               KeptOrValidated(futures[i].impact.sourceUrl, ImpVal(orig, i))

\* the output holds a replaced reference beside a generic one kept on a
\* rejected candidate
C1_Witness ==
    /\ Emitted
    /\ \E r \in SourceRefs(orig) :
           /\ SrcVal(orig, r) = StrField(GenericUrl)
           /\ SrcVerdict(evTrace, r) = "rejected"
           /\ SrcVal(Output, r) = StrField(GenericUrl)
    /\ \E i \in ImpactRefs(orig) :
           /\ ImpVal(Output, i) # ImpVal(orig, i)
           /\ ImpVal(Output, i).val \in validated

\* a failed reference holds its original value wherever it lives
FailedKeepOriginal ==
    Loaded =>
        /\ \A r \in SourceRefs(orig) :
               SrcVerdict(evTrace, r) \in Failures =>
                   /\ SrcVal(data, r) = SrcVal(orig, r)
                   /\ Emitted => SrcVal(Output, r) = SrcVal(orig, r)
        /\ \A i \in DOMAIN futures :
               ImpVerdict(imTrace, i) \in Failures =>
                   /\ futures[i].impact.sourceUrl = ImpVal(orig, i)
                   /\ ImpVal(data, i) = ImpVal(orig, i)
                   /\ Emitted => ImpVal(Output, i) = ImpVal(orig, i)

\* the step in which a reference fails hands over to the next one: the source
\* loop moves to the next source, the worker returns its impact and no other
\* future is touched
FailureGoesOn ==
    /\ (pc = "events" /\ stage \in {"research", "validate"}
            /\ SrcVerdict(evTrace', <<ei, si>>) \in Failures)
        => (pc' = "events" /\ ei' = ei /\ si' = si + 1 /\ stage' = "source")
    /\ \A i \in DOMAIN futures :
           (futures[i].state \in {"research", "validate"}
                /\ ImpVerdict(imTrace', i) \in Failures)
            => /\ futures'[i].state = "done"
               /\ pc' = pc
               /\ \A j \in DOMAIN futures \ {i} : futures'[j] = futures[j]

\* C2: a problematic reference whose research call fails, whose response holds
\* no URL or is NONE, or whose candidate the validator rejects keeps its
\* original value, in the output too, and the run goes on to the next reference.
C2_FailureKeepsOriginalAndGoesOn == []FailedKeepOriginal /\ [][FailureGoesOn]_vars

\* the first source of an event times out, the second one is replaced
C2_Witness ==
    /\ Emitted
    /\ <<1, 2>> \in SourceRefs(orig)
    /\ evTrace[<<1, 1>>].research = Timeout
    /\ SrcVal(Output, <<1, 1>>) = StrField(GenericUrl)
    /\ SrcVerdict(evTrace, <<1, 2>>) = "accepted"
    /\ SrcVal(Output, <<1, 2>>) # SrcVal(orig, <<1, 2>>)

\* C3: when the research call succeeds, a candidate u is extracted and the
\* validator returns true for u, the reference is u in the output; when the
\* validator returns false the reference keeps its original value.
C3_AcceptedCandidateIsWritten ==
    Emitted =>
        /\ \A r \in SourceRefs(orig) :
               /\ SrcVerdict(evTrace, r) = "accepted" =>
                      SrcVal(Output, r) = StrField(Specified[evTrace[r].research].url)
               /\ SrcVerdict(evTrace, r) = "rejected" =>
                      SrcVal(Output, r) = SrcVal(orig, r)
        /\ \A i \in ImpactRefs(orig) :
               /\ ImpVerdict(imTrace, i) = "accepted" =>
                      ImpVal(Output, i) = StrField(Specified[imTrace[i].research].url)
               /\ ImpVerdict(imTrace, i) = "rejected" =>
                      ImpVal(Output, i) = ImpVal(orig, i)

\* a null source becomes the article the agent found; a null impact whose
\* candidate is rejected stays null
C3_Witness ==
    /\ Emitted
    /\ <<1, 1>> \in SourceRefs(orig)
    /\ SrcVal(orig, <<1, 1>>) = NullField
    /\ evTrace[<<1, 1>>].research
           = Exit(0, "Found it.\nhttps://news.example.com/article-2025-10-20\n")
    /\ SrcVal(Output, <<1, 1>>) = StrField("https://news.example.com/article-2025-10-20")
    /\ 1 \in ImpactRefs(orig)
    /\ ImpVal(orig, 1) = NullField
    /\ ImpVerdict(imTrace, 1) = "rejected"
    /\ ImpVal(Output, 1) = NullField

\* an impact but for its sourceUrl
ImpactFrame(m) == [m EXCEPT !.sourceUrl = NullField]

\* an event but for the urls of its sources
EventFrame(ev) ==
    [ev EXCEPT !.sources = [s \in 1..Len(ev.sources) |-> [ev.sources[s] EXCEPT !.url = NullField]]]

\* C4: whatever the order in which the workers complete, the output has as
\* many impacts as the input, the impact at position i is the one worker i
\* computed from input impact i (same serviceId, featureId, impactType and
\* description), and the events are the input's but for URL values.
C4_OrderAndCountPreserved ==
    Emitted =>
        /\ SameShape(Output)
        /\ \A i \in ImpactRefs(orig) :
               /\ Output.eventImpacts[i] = futures[i].impact
               /\ ImpactFrame(Output.eventImpacts[i]) = ImpactFrame(orig.eventImpacts[i])
        /\ \A e \in 1..Len(orig.events) :
               EventFrame(Output.events[e]) = EventFrame(orig.events[e])
        /\ Output.services = orig.services

\* the first impact is yielded last, after the second, and each gets its own
\* URL
C4_Witness ==
    /\ Emitted
    /\ Len(orig.eventImpacts) = 2
    /\ index = 1
    /\ ImpVal(Output, 1) = StrField("https://b.example/y")
    /\ ImpVal(Output, 2) = StrField("https://news.example.com/article-2025-10-20")

\* the research call of impact i has returned a failure
ResearchFailed(tr, i) ==
    tr[i].research # NoCall /\ Specified[tr[i].research].kind = "failure"

\* an impact whose research call failed is unchanged, and in the output every
\* other impact has been through its own pipeline
FailedImpactUnchanged ==
    \A i \in DOMAIN futures :
        ResearchFailed(imTrace, i) =>
            /\ futures[i].state = "done"
            /\ futures[i].impact = orig.eventImpacts[i]
            /\ Emitted =>
                   /\ ImpVal(Output, i) = ImpVal(orig, i)
                   /\ \A j \in DOMAIN futures \ {i} :
                          /\ futures[j].state = "done"
                          /\ imTrace[j].nResearch
                                 = IF SpecifiedGood[ImpVal(orig, j)] THEN 0 ELSE 1

\* the step in which a research call fails touches no other future, and
\* leaves every other worker able to take its next step
FailureLeavesSiblings ==
    \A i \in DOMAIN futures :
        (futures[i].state = "research" /\ ResearchFailed(imTrace', i)) =>
            /\ pc' = pc
            /\ \A j \in DOMAIN futures \ {i} : futures'[j] = futures[j]
            /\ Cardinality(Running') < Cardinality(Running)

\* C5: when one impact's research call fails (a timeout, say), every other
\* impact is still processed and may be updated, and the failing impact's
\* sourceUrl is unchanged in the output.
C5_ResearchFailureIsolated == []FailedImpactUnchanged /\ [][FailureLeavesSiblings]_vars

\* impact 1 times out and keeps its null sourceUrl, impact 2 is replaced
C5_Witness ==
    /\ Emitted
    /\ Len(orig.eventImpacts) = 2
    /\ imTrace[1].research = Timeout
    /\ ImpVal(Output, 1) = NullField
    /\ ImpVerdict(imTrace, 2) = "accepted"
    /\ ImpVal(Output, 2) # ImpVal(orig, 2)

\* C6: an exception raised inside one unit of work (an impact's worker, a
\* reference's pipeline) aborts neither its siblings nor the run: a run whose
\* input parsed is never ended by an exception, it goes on to emit, and the
\* faulting unit's reference keeps its original value.
C6_ExceptionDoesNotAbortRun ==
    input.parses =>
        /\ pc \notin {"crashed", "failed"}
        /\ exitCode # 1
        /\ \A i \in DOMAIN futures :
               futures[i].state = "raised" => futures[i].impact = orig.eventImpacts[i]

\* every reference of the input is non-problematic
AllGood ==
    /\ input.parses
    /\ \A r \in SourceRefs(orig) : SpecifiedGood[SrcVal(orig, r)]
    /\ \A i \in ImpactRefs(orig) : SpecifiedGood[ImpVal(orig, i)]

\* C7: when no reference of the input is problematic, the run makes no
\* research call and no validation call, and the emitted dataset is the input.
C7_NothingToDoChangesNothing ==
    AllGood =>
        /\ \A r \in DOMAIN evTrace : evTrace[r] = NoTrace
        /\ \A i \in DOMAIN imTrace : imTrace[i] = NoTrace
        /\ validated = {}
        /\ Loaded => data = orig
        /\ \A k \in 1..Len(out) : out[k] = orig

\* a run over one good source and one good impact has emitted
C7_Witness ==
    /\ Emitted
    /\ AllGood
    /\ SourceRefs(orig) # {}
    /\ ImpactRefs(orig) # {}
    /\ Output = orig

\* the calls made so far: research and validation, over all references
Calls ==
    [research |-> {r \in DOMAIN evTrace : evTrace[r].nResearch > 0}
                      \cup {i \in DOMAIN imTrace : imTrace[i].nResearch > 0},
     validate |-> {r \in DOMAIN evTrace : evTrace[r].nValidate > 0}
                      \cup {i \in DOMAIN imTrace : imTrace[i].nValidate > 0}]

\* C12: when the input document does not parse, the run aborts before any
\* processing: no research or validation call is made, nothing is written to
\* standard output, and the process exits with a non-zero status.
C12_UnparsableInputAborts ==
    ~input.parses =>
        /\ pc \in {"load", "failed"}
        /\ pc = "failed" => exitCode = 1
        /\ exitCode # 0
        /\ out = <<>>
        /\ Calls.research = {} /\ Calls.validate = {}
        /\ futures = <<>>
        /\ data = EmptyDataset

\* the run on a document that does not parse has ended
C12_Witness ==
    /\ ~input.parses
    /\ pc = "failed"
    /\ exitCode = 1
    /\ out = <<>>

\* every event has been through enhance_event_source and every submitted
\* impact's result has been written back at its index
AllProcessed ==
    /\ ei = Len(data.events) + 1 /\ stage = "idle"
    /\ DOMAIN futures = ImpactRefs(orig)
    /\ \A i \in DOMAIN futures :
           /\ futures[i].state = "done" /\ futures[i].yielded
           /\ data.eventImpacts[i] = futures[i].impact
    /\ completed_count = Len(orig.eventImpacts)

\* C13: the dataset is written to standard output at most once per run, and
\* only at the end: after every event has been processed and every submitted
\* impact's result has been written back at its index; what is written is the
\* whole dataset as it then stands.
C13_EmittedOnceAtTheEnd ==
    /\ Len(out) <= 1
    /\ Emitted => (pc = "done" /\ AllProcessed /\ Output = data)
    /\ pc = "done" => Emitted

\* a run over an event source and an impact has emitted once, both replaced
C13_Witness ==
    /\ Len(out) = 1
    /\ pc = "done"
    /\ <<1, 1>> \in SourceRefs(orig)
    /\ Len(orig.eventImpacts) = 1
    /\ SrcVal(Output, <<1, 1>>) # SrcVal(orig, <<1, 1>>)
    /\ ImpVal(Output, 1) # ImpVal(orig, 1)

\* a reference has been through at most one research call and at most one
\* validation call, the second only after the first
AtMostOnce(t) ==
    /\ t.nResearch <= 1
    /\ t.nValidate <= t.nResearch

\* C14: no retries: within one run each reference triggers at most one
\* research call and at most one validation call; a reference whose attempt
\* failed at any stage has had exactly one research call, is not attempted
\* again, and keeps its original value.
C14_NoRetries ==
    Loaded =>
        /\ \A r \in SourceRefs(orig) :
               /\ AtMostOnce(evTrace[r])
               /\ SrcVerdict(evTrace, r) \in Failures =>
                      /\ evTrace[r].nResearch = 1
                      /\ r # <<ei, si>>
                      /\ SrcVal(data, r) = SrcVal(orig, r)
        /\ \A i \in ImpactRefs(orig) :
               /\ AtMostOnce(imTrace[i])
               /\ (i \in DOMAIN futures /\ ImpVerdict(imTrace, i) \in Failures) =>
                      /\ imTrace[i].nResearch = 1
                      /\ futures[i].state = "done"
                      /\ futures[i].impact.sourceUrl = ImpVal(orig, i)

\* the run has emitted: the source's candidate was rejected after one research
\* and one validation call, the impact's research call failed after one call
C14_Witness ==
    /\ Emitted
    /\ <<1, 1>> \in SourceRefs(orig)
    /\ SrcVerdict(evTrace, <<1, 1>>) = "rejected"
    /\ evTrace[<<1, 1>>].nResearch = 1 /\ evTrace[<<1, 1>>].nValidate = 1
    /\ 1 \in ImpactRefs(orig)
    /\ ImpVerdict(imTrace, 1) = "failure"
    /\ imTrace[1].nResearch = 1 /\ imTrace[1].nValidate = 0
    /\ Output = orig

\* C15: at every moment of impact enrichment the number of research and
\* validation calls outstanding at once is at most the worker limit, 100,
\* however many impacts are submitted.
C15_OutstandingCallsBounded == pool.research + pool.validate <= max_workers

\* more impacts than workers: every worker is in a call and impacts wait
C15_Witness ==
    /\ pool.research + pool.validate = max_workers
    /\ pool.research > 0 /\ pool.validate > 0
    /\ pool.pending > 0

\* a reference has a call outstanding: made, and not yet answered
Outstanding(t) ==
    \/ t.nResearch > 0 /\ t.research = NoCall
    \/ t.nValidate > 0 /\ t.fetch = NoFetch

\* source r comes before the position <<e, s>> of the loops, in dataset order
Before(r, e, s) == r[1] < e \/ (r[1] = e /\ r[2] < s)

\* C16: event enrichment is strictly sequential: events are processed in
\* dataset order and sources in sequence order, at most one research or
\* validation call is outstanding at any time of the event phase, and a
\* source's pipeline starts only after the pipelines of all sources before it
\* have finished.
C16_EventPhaseSequential ==
    (Loaded /\ pc = "events") =>
        /\ futures = <<>>
        /\ Cardinality({r \in SourceRefs(orig) : Outstanding(evTrace[r])}) <= 1
        /\ \A r \in SourceRefs(orig) :
               /\ Outstanding(evTrace[r]) =>
                      (r = <<ei, si>> /\ stage \in {"research", "validate"})
               /\ Before(r, ei, si) =>
                      /\ ~Outstanding(evTrace[r])
                      /\ evTrace[r].nResearch
                             = IF Classified[SrcVal(orig, r)] THEN 1 ELSE 0
               /\ (r # <<ei, si>> /\ ~Before(r, ei, si)) => evTrace[r] = NoTrace
               /\ (r = <<ei, si>> /\ stage = "source") => evTrace[r] = NoTrace

\* the research call of the second source is outstanding; the first source's
\* pipeline has finished with an accepted candidate
C16_Witness ==
    /\ pc = "events" /\ ei = 1 /\ si = 2 /\ stage = "research"
    /\ Outstanding(evTrace[<<1, 2>>])
    /\ SrcVerdict(evTrace, <<1, 1>>) = "accepted"
    /\ SrcVal(data, <<1, 1>>) # SrcVal(orig, <<1, 1>>)

\* every submitted impact has completed and been written back, and the run
\* has emitted its output
AllWrittenBackAndEmitted ==
    /\ pc = "done" /\ Emitted
    /\ \A i \in DOMAIN futures :
           futures[i].state = "done" /\ futures[i].yielded
               /\ Output.eventImpacts[i] = futures[i].impact

\* C17: every research call and every validation fetch returning or timing
\* out, no unit blocks the others: once the impacts are submitted, every one
\* of them eventually completes and is written back, and the run eventually
\* emits its output.
C17_SubmittedImpactsCompleteAndRunEmits == (pc = "collect") ~> AllWrittenBackAndEmitted

\* C18: the services sequence is never mutated: at every point of the run
\* and in the emitted output services is its input value, whatever the
\* workers look up in it; each worker changes only its own copy of its own
\* impact, and of that only the sourceUrl: the dataset's impact is the input's
\* until the result is written back.
C18_ServicesReadOnlyWorkersOwnCopy ==
    Loaded =>
        /\ data.services = orig.services
        /\ \A k \in 1..Len(out) : out[k].services = orig.services
        /\ \A i \in DOMAIN futures :
               /\ ImpactFrame(futures[i].impact) = ImpactFrame(orig.eventImpacts[i])
               /\ futures[i].impact # orig.eventImpacts[i] =>
                      ImpVerdict(imTrace, i) = "accepted"
               /\ ~futures[i].yielded => data.eventImpacts[i] = orig.eventImpacts[i]

\* worker 1 has replaced the sourceUrl of its copy, not yet written back;
\* worker 2 has looked its service up and waits for the agent
C18_Witness ==
    /\ pc = "collect"
    /\ Len(futures) = 2
    /\ futures[1].state = "done" /\ ~futures[1].yielded
    /\ futures[1].impact.sourceUrl # ImpVal(orig, 1)
    /\ data.eventImpacts[1] = orig.eventImpacts[1]
    /\ futures[2].state = "research"
    /\ futures[2].context.service_name = "Service A"
    /\ futures[2].context.feature_name = Some("Feature 1")
    /\ futures[2].impact = orig.eventImpacts[2]
    /\ data.services = orig.services /\ orig.services # <<>>

\* the stages a reference has been through are gated in order: t is its
\* trace, o its input value, v one of its values in the run, kw its keywords
Gated(t, o, v, kw) ==
    /\ t.nResearch > 0 => Classified[o]
    /\ t.nValidate > 0 =>
           /\ t.nResearch > 0 /\ t.research # NoCall
           /\ Specified[t.research].kind = "url"
    /\ v # o =>
           /\ t.nValidate > 0 /\ t.fetch # NoFetch
           /\ Validates[kw][t.fetch]

\* C19: the stages are gated in order for every reference: a research call is
\* made only if the classifier found the reference problematic; a validation
\* call only after that reference's research call succeeded with a response
\* that is not NONE and holds a candidate URL; the reference is written only
\* after its validation returned true.
C19_StagesGatedInOrder ==
    Loaded =>
        /\ \A r \in SourceRefs(orig) :
               /\ Gated(evTrace[r], SrcVal(orig, r), SrcVal(data, r),
                        EventKeywords(orig.events[r[1]]))
               /\ \A k \in 1..Len(out) :
                      Gated(evTrace[r], SrcVal(orig, r), SrcVal(out[k], r),
                            EventKeywords(orig.events[r[1]]))
        /\ \A i \in ImpactRefs(orig) :
               IF Raises(orig.eventImpacts[i].serviceId)
               THEN imTrace[i] = NoTrace /\ ImpVal(data, i) = ImpVal(orig, i)
               ELSE /\ Gated(imTrace[i], ImpVal(orig, i), ImpVal(data, i),
                             ImpactKeywordsOf[orig.eventImpacts[i]])
                    /\ i \in DOMAIN futures =>
                           Gated(imTrace[i], ImpVal(orig, i), futures[i].impact.sourceUrl,
                                 ImpactKeywordsOf[orig.eventImpacts[i]])
                    /\ \A k \in 1..Len(out) :
                           Gated(imTrace[i], ImpVal(orig, i), ImpVal(out[k], i),
                                 ImpactKeywordsOf[orig.eventImpacts[i]])

\* the output: a source that passed the three gates and was written, beside
\* an impact whose agent answered NONE and that was never validated
C19_Witness ==
    /\ Emitted
    /\ <<1, 1>> \in SourceRefs(orig)
    /\ evTrace[<<1, 1>>].nResearch = 1 /\ evTrace[<<1, 1>>].nValidate = 1
    /\ SrcVal(Output, <<1, 1>>) # SrcVal(orig, <<1, 1>>)
    /\ 1 \in ImpactRefs(orig)
    /\ imTrace[1].research = Exit(0, "NONE\n")
    /\ imTrace[1].nValidate = 0
    /\ ImpVal(Output, 1) = ImpVal(orig, 1)

\* the non-empty lines of each answer of the agent that begin with http once
\* trimmed
HttpUrls ==
    [run \in ResearchOutcomes |->
        LET lines == Split(run.stdout, "\n")
        IN  {Strip(lines[k]) : k \in HttpLines(lines)} \ {""}]

\* v, a value of a reference whose input value is o and whose trace is t, is o
\* or a URL taken from the response to the reference's own research call
OwnCandidate(t, o, v) ==
    v # o =>
        /\ v.kind = "str"
        /\ t.research # NoCall
        /\ v.val \in HttpUrls[t.research]
        /\ v.val = Specified[t.research].url

\* C20: no cross-talk between references: whenever a reference is replaced,
\* its new value is a non-empty string beginning with http that was extracted
\* from the response to that same reference's own research call, never from
\* the response of another reference or of a worker running beside it.
C20_NoCrossTalk ==
    Loaded =>
        /\ \A r \in SourceRefs(orig) :
               /\ OwnCandidate(evTrace[r], SrcVal(orig, r), SrcVal(data, r))
               /\ \A k \in 1..Len(out) :
                      OwnCandidate(evTrace[r], SrcVal(orig, r), SrcVal(out[k], r))
        /\ \A i \in ImpactRefs(orig) :
               /\ OwnCandidate(imTrace[i], ImpVal(orig, i), ImpVal(data, i))
               /\ i \in DOMAIN futures =>
                      OwnCandidate(imTrace[i], ImpVal(orig, i), futures[i].impact.sourceUrl)
               /\ \A k \in 1..Len(out) :
                      OwnCandidate(imTrace[i], ImpVal(orig, i), ImpVal(out[k], i))

\* two workers were validating at once, each with the candidate of its own
\* response; both have returned and each copy holds its own URL
C20_Witness ==
    /\ pc = "collect"
    /\ Len(futures) = 2
    /\ futures[1].state = "done" /\ futures[2].state = "done"
    /\ ~futures[1].yielded /\ ~futures[2].yielded
    /\ imTrace[1].research = Exit(0, "https://a.example/x\nmore text\nhttps://b.example/y")
    /\ imTrace[2].research
           = Exit(0, "Found it.\nhttps://news.example.com/article-2025-10-20\n")
    /\ futures[1].impact.sourceUrl = StrField("https://b.example/y")
    /\ futures[2].impact.sourceUrl
           = StrField("https://news.example.com/article-2025-10-20")

====
